---- MODULE Spec2Model ----
(***************************************************************************)
(* json2toon: the flattener (src/src/converter.rs) and the TOON writer     *)
(* (src/src/toon.rs).                                                      *)
(*                                                                         *)
(* Text is a sequence of one-character strings.  A JSON value is a record  *)
(* of one shape for every kind, so that values of different kinds compare.  *)
(* A number is kept as its shortest decimal form  mant * 10^exp  (mant has  *)
(* no trailing zero), the form Rust's float formatting starts from; the    *)
(* model's mantissas have at most three digits, for which the decimal      *)
(* literal, the f64 it parses to and the f64's shortest digits agree.      *)
(***************************************************************************)
EXTENDS Integers, Sequences, FiniteSets, TLC

VARIABLES
    json,                 \* the input handed to convert / estimate_size
    arbitrary_precision,  \* serde_json built with its arbitrary_precision feature
    converted,            \* what convert returned, "none" before the call
    writer,               \* convert's local ToonWriter as it was when convert returned
    estimated,            \* what estimate_size returned, "none" before the call
    input,                \* SpecEscape: the string handed to escape_string
    escaped,              \* SpecEscape: what escape_string returned
    w,                    \* SpecWriter: a ToonWriter driven call by call
    call,                 \* SpecWriter: the last call made on w, with the buffer before it
    finished              \* SpecWriter: what finish() returned, once called

vars == <<json, arbitrary_precision, converted, writer, estimated,
          input, escaped, w, call, finished>>

(***************************************************************************)
(* Bounds of the model.                                                    *)
(***************************************************************************)
MaxNodes == 4      \* nodes (leaves and containers) of an input JSON value
MaxLen == 3        \* characters of a string handed to escape_string
MaxWrites == 2     \* write calls made on a ToonWriter driven directly

(***************************************************************************)
(* Text.                                                                   *)
(***************************************************************************)
DigitChars == <<"0", "1", "2", "3", "4", "5", "6", "7", "8", "9">>

\* format!("{}", i) of a non-negative integer
RECURSIVE fmt_int(_)
fmt_int(i) ==
    IF i < 10 THEN <<DigitChars[i + 1]>>
    ELSE fmt_int(i \div 10) \o <<DigitChars[(i % 10) + 1]>>

\* k zeros
Zeros(k) == [i \in 1..k |-> "0"]

(***************************************************************************)
(* escape_string, toon.rs:54-67.                                           *)
(***************************************************************************)
\* the escape table without its backslash row
escape_char_keep_backslash(ch) ==
    CASE ch = "\"" -> <<"\\", "\"">>
      [] ch = "\n" -> <<"\\", "n">>
      [] ch = "\r" -> <<"\\", "r">>
      [] ch = "\t" -> <<"\\", "t">>
      [] OTHER -> <<ch>>

escape_char(ch) ==
    CASE ch = "\"" -> <<"\\", "\"">>
      [] ch = "\\" -> <<"\\", "\\">>
      [] ch = "\n" -> <<"\\", "n">>
      [] ch = "\r" -> <<"\\", "r">>
      [] ch = "\t" -> <<"\\", "t">>
      [] OTHER -> <<ch>>

RECURSIVE escape_from(_, _)
escape_from(s, i) ==
    IF i > Len(s) THEN <<>> ELSE escape_char(s[i]) \o escape_from(s, i + 1)

escape_string(s) == escape_from(s, 1)

(***************************************************************************)
(* f64 values and their text forms.                                        *)
(***************************************************************************)
F64(neg, mant, exp) == [neg |-> neg, mant |-> mant, exp |-> exp]

NumDigits(m) == Len(fmt_int(m))

\* value.fract() == 0.0
fract_is_zero(value) == value.mant = 0 \/ value.exp >= 0

\* value.abs() < 1e15
IntegerLimitExp == 15
abs_below_limit(value) ==
    value.mant = 0 \/ NumDigits(value.mant) + value.exp <= IntegerLimitExp

\* format!("{}", value as i64), for an integral value below the limit: the
\* cast is exact there, and the integer zero has no sign
fmt_as_i64(value) ==
    IF value.mant = 0 THEN <<"0">>
    ELSE (IF value.neg THEN <<"-">> ELSE <<>>)
         \o fmt_int(value.mant) \o Zeros(value.exp)

\* format!("{}", value) of a finite f64: the shortest digits laid out as a
\* decimal, never with an exponent, and with no ".0" on an integral value
fmt_f64(value) ==
    LET sign == IF value.neg THEN <<"-">> ELSE <<>>
        digits == fmt_int(value.mant)
        d == Len(digits)
    IN  IF value.mant = 0 THEN sign \o <<"0">>
        ELSE IF value.exp >= 0 THEN sign \o digits \o Zeros(value.exp)
        ELSE IF d > -value.exp
             THEN sign \o SubSeq(digits, 1, d + value.exp) \o <<".">>
                       \o SubSeq(digits, d + value.exp + 1, d)
        ELSE sign \o <<"0", ".">> \o Zeros(-value.exp - d) \o digits

(***************************************************************************)
(* ToonWriter, toon.rs:8-45.  calls is the trace of the write calls made   *)
(* on the writer, each with its key and the text it appended; the code     *)
(* keeps only buffer.                                                      *)
(***************************************************************************)
ToonWriter_new == [buffer |-> <<>>, calls |-> <<>>]

\* the record assigned to the buffer, not appended to it
push_str_overwrite(wr, op, key, text) ==
    [buffer |-> text,
     calls  |-> Append(wr.calls, [op |-> op, key |-> key, text |-> text])]

push_str(wr, op, key, text) ==
    [buffer |-> wr.buffer \o text,
     calls  |-> Append(wr.calls, [op |-> op, key |-> key, text |-> text])]

write_string(wr, key, value) ==
    push_str(wr, "write_string", key,
             key \o <<"=", "\"">> \o escape_string(value) \o <<"\"", "\n">>)

\* write_number without the integer branch
write_number_always_float(wr, key, value) ==
    push_str(wr, "write_number", key,
             key \o <<"=">> \o fmt_f64(value) \o <<"\n">>)

write_number(wr, key, value) ==
    IF fract_is_zero(value) /\ abs_below_limit(value)
    THEN push_str(wr, "write_number", key,
                  key \o <<"=">> \o fmt_as_i64(value) \o <<"\n">>)
    ELSE push_str(wr, "write_number", key,
                  key \o <<"=">> \o fmt_f64(value) \o <<"\n">>)

write_bool(wr, key, value) ==
    push_str(wr, "write_bool", key,
             key \o <<"=">>
                 \o (IF value THEN <<"t", "r", "u", "e">>
                              ELSE <<"f", "a", "l", "s", "e">>)
                 \o <<"\n">>)

\* write_null without the record's newline
write_null_no_newline(wr, key) ==
    push_str(wr, "write_null", key, key \o <<"=", "n", "u", "l", "l">>)

write_null(wr, key) ==
    push_str(wr, "write_null", key, key \o <<"=", "n", "u", "l", "l", "\n">>)

finish(wr) == wr.buffer

(***************************************************************************)
(* serde_json::Value.  An object is its entries in iteration order: keys   *)
(* and items run in parallel and the keys are distinct.  A number is the   *)
(* decimal literal of the JSON text.                                       *)
(***************************************************************************)
NoNumber == F64(FALSE, 0, 0)

Value(kind, b, n, s, keys, items) ==
    [kind |-> kind, b |-> b, n |-> n, s |-> s, keys |-> keys, items |-> items]

Null == Value("Null", FALSE, NoNumber, <<>>, <<>>, <<>>)
Bool(b) == Value("Bool", b, NoNumber, <<>>, <<>>, <<>>)
Number(n) == Value("Number", FALSE, n, <<>>, <<>>, <<>>)
String(s) == Value("String", FALSE, NoNumber, s, <<>>, <<>>)
Array(items) == Value("Array", FALSE, NoNumber, <<>>, <<>>, items)
Object(keys, items) == Value("Object", FALSE, NoNumber, <<>>, keys, items)

\* The largest finite f64 is 1.7976931348623157e308: a literal of at most
\* three digits is in range iff it is at most 1.79e308.
F64MaxExp10 == 308
F64MaxLead == 179
in_f64_range(n) ==
    LET d == NumDigits(n.mant)
        e10 == d + n.exp - 1
    IN  \/ n.mant = 0
        \/ e10 < F64MaxExp10
        \/ e10 = F64MaxExp10 /\ n.mant * (10 ^ (3 - d)) <= F64MaxLead

\* Number::as_f64, converter.rs:48.  Every number a default build parses is
\* finite; under arbitrary_precision the literal is parsed on demand and a
\* literal beyond the f64 range gives None.
as_f64(n) == [some |-> in_f64_range(n), f |-> n]

RECURSIVE all_in_range(_)
all_in_range(value) ==
    /\ value.kind = "Number" => in_f64_range(value.n)
    /\ \A i \in 1..Len(value.items) : all_in_range(value.items[i])

\* serde_json::from_str, converter.rs:20-21 and 93-94.  Text that is not
\* JSON is an error; so is, in a default build, a number literal beyond the
\* f64 range ("number out of range").
from_str(text, ap) ==
    IF ~text.wellformed THEN [ok |-> FALSE, value |-> Null]
    ELSE IF ~ap /\ ~all_in_range(text.value) THEN [ok |-> FALSE, value |-> Null]
    ELSE [ok |-> TRUE, value |-> text.value]

(***************************************************************************)
(* Converter::convert_value, converter.rs:39-89.                           *)
(***************************************************************************)
Done(wr) == [ok |-> TRUE, writer |-> wr]
Bail(wr) == [ok |-> FALSE, writer |-> wr]

EmptyArrayMarker == <<"[", "]">>
EmptyObjectMarker == <<"{", "}">>

array_key(prefix, i) ==
    IF prefix = <<>> THEN fmt_int(i) ELSE prefix \o <<".">> \o fmt_int(i)

object_key(prefix, key) ==
    IF prefix = <<>> THEN key ELSE prefix \o <<".">> \o key

\* the number arm without the as_f64 check
convert_number_unchecked(wr, prefix, n) == Done(write_number(wr, prefix, n))

convert_number(wr, prefix, n) ==
    LET f == as_f64(n)
    IN  IF f.some THEN Done(write_number(wr, prefix, f.f)) ELSE Bail(wr)

RECURSIVE convert_value(_, _, _)
RECURSIVE convert_array_items(_, _, _, _)
RECURSIVE convert_object_entries(_, _, _, _)

\* the array loop run from the last item to the first
convert_array_items_reversed(wr, prefix, arr, pos) ==
    IF pos > Len(arr) THEN Done(wr)
    ELSE LET at == Len(arr) - pos + 1
             r == convert_value(wr, array_key(prefix, at - 1), arr[at])
         IN  IF r.ok THEN convert_array_items(r.writer, prefix, arr, pos + 1)
             ELSE r

\* for (i, item) in arr.iter().enumerate(), from the item at position pos
\* (1-based here, index pos - 1 in the code); `?` leaves the loop
convert_array_items(wr, prefix, arr, pos) ==
    IF pos > Len(arr) THEN Done(wr)
    ELSE LET r == convert_value(wr, array_key(prefix, pos - 1), arr[pos])
         IN  IF r.ok THEN convert_array_items(r.writer, prefix, arr, pos + 1)
             ELSE r

\* the object loop without its `?`: an entry's error is dropped
convert_object_entries_unchecked(wr, prefix, obj, pos) ==
    IF pos > Len(obj.items) THEN Done(wr)
    ELSE LET r == convert_value(wr, object_key(prefix, obj.keys[pos]),
                                obj.items[pos])
         IN  convert_object_entries(r.writer, prefix, obj, pos + 1)

\* for (key, val) in obj.iter(); `?` leaves the loop
convert_object_entries(wr, prefix, obj, pos) ==
    IF pos > Len(obj.items) THEN Done(wr)
    ELSE LET r == convert_value(wr, object_key(prefix, obj.keys[pos]),
                                obj.items[pos])
         IN  IF r.ok THEN convert_object_entries(r.writer, prefix, obj, pos + 1)
             ELSE r

\* the array arm writing the marker as the bare text []
convert_array_bare_marker(wr, prefix, arr) ==
    IF arr = <<>>
    THEN Done(push_str(wr, "write_string", prefix,
                       prefix \o <<"=">> \o EmptyArrayMarker \o <<"\n">>))
    ELSE convert_array_items(wr, prefix, arr, 1)

\* the Value::Array arm, converter.rs:57-71
convert_array(wr, prefix, arr) ==
    IF arr = <<>> THEN Done(write_string(wr, prefix, EmptyArrayMarker))
    ELSE convert_array_items(wr, prefix, arr, 1)

\* the object arm without the is_empty case: an empty object writes nothing
convert_object_no_marker(wr, prefix, obj) ==
    convert_object_entries(wr, prefix, obj, 1)

\* the Value::Object arm, converter.rs:72-86
convert_object(wr, prefix, obj) ==
    IF obj.items = <<>> THEN Done(write_string(wr, prefix, EmptyObjectMarker))
    ELSE convert_object_entries(wr, prefix, obj, 1)

convert_value(wr, prefix, value) ==
    CASE value.kind = "Null" -> Done(write_null(wr, prefix))
      [] value.kind = "Bool" -> Done(write_bool(wr, prefix, value.b))
      [] value.kind = "Number" -> convert_number(wr, prefix, value.n)
      [] value.kind = "String" -> Done(write_string(wr, prefix, value.s))
      [] value.kind = "Array" -> convert_array(wr, prefix, value.items)
      [] value.kind = "Object" -> convert_object(wr, prefix, value)

(***************************************************************************)
(* Converter::convert, converter.rs:15-36.  The result carries the text    *)
(* only when it is Ok; writer is the local writer at the return.           *)
(***************************************************************************)
Ok(text) == [state |-> "Ok", text |-> text, error |-> "none"]
Err(error) == [state |-> "Err", text |-> <<>>, error |-> error]
NotCalled == [state |-> "none", text |-> <<>>, error |-> "none"]

convert(text, ap) ==
    LET parsed == from_str(text, ap)
    IN  IF ~parsed.ok
        THEN [result |-> Err("ParseError"), writer |-> ToonWriter_new]
        ELSE LET r == convert_value(ToonWriter_new, <<>>, parsed.value)
             IN  IF r.ok THEN [result |-> Ok(finish(r.writer)), writer |-> r.writer]
                 ELSE [result |-> Err("ConversionError"), writer |-> r.writer]

(***************************************************************************)
(* Converter::estimate_size, converter.rs:92-138.                          *)
(***************************************************************************)
RECURSIVE estimate_value_size(_, _)
RECURSIVE estimate_array_sum(_, _, _)
RECURSIVE estimate_object_sum(_, _, _)

estimate_array_sum(arr, prefix, pos) ==
    IF pos > Len(arr) THEN 0
    ELSE estimate_value_size(arr[pos], array_key(prefix, pos - 1))
         + estimate_array_sum(arr, prefix, pos + 1)

estimate_object_sum(obj, prefix, pos) ==
    IF pos > Len(obj.items) THEN 0
    ELSE estimate_value_size(obj.items[pos], object_key(prefix, obj.keys[pos]))
         + estimate_object_sum(obj, prefix, pos + 1)

estimate_value_size(value, prefix) ==
    CASE value.kind = "Null" -> Len(prefix) + 6
      [] value.kind = "Bool" -> Len(prefix) + 7
      [] value.kind = "Number" -> Len(prefix) + 25
      [] value.kind = "String" -> Len(prefix) + Len(value.s) + 4
      [] value.kind = "Array" ->
            IF value.items = <<>> THEN Len(prefix) + 5
            ELSE estimate_array_sum(value.items, prefix, 1)
      [] value.kind = "Object" ->
            IF value.items = <<>> THEN Len(prefix) + 5
            ELSE estimate_object_sum(value, prefix, 1)

NoEstimate == [state |-> "none", size |-> 0]

estimate_size(text, ap) ==
    LET parsed == from_str(text, ap)
    IN  IF ~parsed.ok THEN [state |-> "Err", size |-> 0]
        ELSE [state |-> "Ok", size |-> estimate_value_size(parsed.value, <<>>)]

(***************************************************************************)
(* The inputs: every JSON value of at most MaxNodes nodes over the leaves  *)
(* and keys below, and one text that is not JSON.  The leaves are null,    *)
(* true, 30, 2e308 (beyond the f64 range), the string of a quote and a     *)
(* newline, [] and {}.                                                     *)
(***************************************************************************)
Keys == {<<>>, <<"k", "=">>, <<"\n">>}

Leaves ==
    {Null, Bool(TRUE), Number(F64(FALSE, 3, 1)), Number(F64(FALSE, 2, 308)),
     String(<<"\"", "\n">>), Array(<<>>), Object(<<>>, <<>>)}

RECURSIVE ValuesOfSize(_)
RECURSIVE Forests(_, _)

\* the sequences of k values with m nodes in all
Forests(m, k) ==
    IF k = 1 THEN {<<v>> : v \in ValuesOfSize(m)}
    ELSE UNION {{<<v>> \o f : v \in ValuesOfSize(j), f \in Forests(m - j, k - 1)}
                : j \in 1..(m - k + 1)}

KeySeqs(k) ==
    {ks \in [1..k -> Keys] : \A i, j \in 1..k : i # j => ks[i] # ks[j]}

ValuesOfSize(m) ==
    IF m = 1 THEN Leaves
    ELSE UNION {{Array(f) : f \in Forests(m - 1, k)} : k \in 1..(m - 1)}
         \cup UNION {{Object(ks, f) : ks \in KeySeqs(k), f \in Forests(m - 1, k)}
                     : k \in 1..(m - 1)}

Malformed == [wellformed |-> FALSE, value |-> Null]

WellFormed(v) == [wellformed |-> TRUE, value |-> v]

(***************************************************************************)
(* The converter: convert and estimate_size, each called once on the same  *)
(* input, in either order.                                                 *)
(***************************************************************************)
NotEscaped == [state |-> "none", text |-> <<>>]
NotFinished == [state |-> "none", text |-> <<>>]
NoCall == [op |-> "none", key |-> <<>>, n |-> NoNumber, before |-> <<>>]

Init ==
    /\ \/ json = Malformed
       \/ \E v \in Leaves : json = WellFormed(v)
       \/ \E m \in 2..MaxNodes : \E k \in 1..(m - 1) : \E f \in Forests(m - 1, k) :
             \/ json = WellFormed(Array(f))
             \/ \E ks \in KeySeqs(k) : json = WellFormed(Object(ks, f))
    /\ arbitrary_precision \in BOOLEAN
    /\ converted = NotCalled
    /\ writer = ToonWriter_new
    /\ estimated = NoEstimate
    /\ input = <<>>
    /\ escaped = NotEscaped
    /\ w = ToonWriter_new
    /\ call = NoCall
    /\ finished = NotFinished

Convert ==
    /\ converted.state = "none"
    /\ LET c == convert(json, arbitrary_precision)
       IN  /\ converted' = c.result
           /\ writer' = c.writer
    /\ UNCHANGED <<json, arbitrary_precision, estimated, input, escaped, w,
                   call, finished>>

EstimateSize ==
    /\ estimated.state = "none"
    /\ estimated' = estimate_size(json, arbitrary_precision)
    /\ UNCHANGED <<json, arbitrary_precision, converted, writer, input, escaped,
                   w, call, finished>>

Next == Convert \/ EstimateSize

Spec == Init /\ [][Next]_vars

(***************************************************************************)
(* escape_string on its own: every string of at most MaxLen characters     *)
(* over the five characters of the escape table and two others.            *)
(***************************************************************************)
EscapeChars == {"\"", "\\", "\n", "\r", "\t", "n", "a"}

EscapeInputs == UNION {[1..n -> EscapeChars] : n \in 0..MaxLen}

InitEscape ==
    /\ input \in EscapeInputs
    /\ escaped = NotEscaped
    /\ json = Malformed
    /\ arbitrary_precision = FALSE
    /\ converted = NotCalled
    /\ writer = ToonWriter_new
    /\ estimated = NoEstimate
    /\ w = ToonWriter_new
    /\ call = NoCall
    /\ finished = NotFinished

Escape ==
    /\ escaped.state = "none"
    /\ escaped' = [state |-> "done", text |-> escape_string(input)]
    /\ UNCHANGED <<json, arbitrary_precision, converted, writer, estimated,
                   input, w, call, finished>>

NextEscape == Escape

SpecEscape == InitEscape /\ [][NextEscape]_vars

(***************************************************************************)
(* The writer on its own: up to MaxWrites write calls, then finish, which  *)
(* consumes the writer.  The numbers are 0, -0.0, 30, -42, 98.5, -0.5,     *)
(* 0.001, 999e12, 1e15, -1e15, 15e14 and 1e22.                             *)
(***************************************************************************)
WriterKeys == {<<>>, <<"k">>}

WriterStrings == {<<>>, <<"a">>, <<"\"", "\\">>}

WriterNumbers ==
    {F64(FALSE, 0, 0), F64(TRUE, 0, 0), F64(FALSE, 3, 1), F64(TRUE, 42, 0),
     F64(FALSE, 985, -1), F64(TRUE, 5, -1), F64(FALSE, 1, -3),
     F64(FALSE, 999, 12), F64(FALSE, 1, 15), F64(TRUE, 1, 15),
     F64(FALSE, 15, 14), F64(FALSE, 1, 22)}

InitWriter ==
    /\ w = ToonWriter_new
    /\ call = NoCall
    /\ finished = NotFinished
    /\ json = Malformed
    /\ arbitrary_precision = FALSE
    /\ converted = NotCalled
    /\ writer = ToonWriter_new
    /\ estimated = NoEstimate
    /\ input = <<>>
    /\ escaped = NotEscaped

CanWrite == finished.state = "none" /\ Len(w.calls) < MaxWrites

Called(op, key, n) == [op |-> op, key |-> key, n |-> n, before |-> w.buffer]

WriteString ==
    /\ CanWrite
    /\ \E key \in WriterKeys, value \in WriterStrings :
          /\ w' = write_string(w, key, value)
          /\ call' = Called("write_string", key, NoNumber)
    /\ UNCHANGED <<json, arbitrary_precision, converted, writer, estimated,
                   input, escaped, finished>>

WriteNumber ==
    /\ CanWrite
    /\ \E key \in WriterKeys, value \in WriterNumbers :
          /\ w' = write_number(w, key, value)
          /\ call' = Called("write_number", key, value)
    /\ UNCHANGED <<json, arbitrary_precision, converted, writer, estimated,
                   input, escaped, finished>>

WriteBool ==
    /\ CanWrite
    /\ \E key \in WriterKeys, value \in BOOLEAN :
          /\ w' = write_bool(w, key, value)
          /\ call' = Called("write_bool", key, NoNumber)
    /\ UNCHANGED <<json, arbitrary_precision, converted, writer, estimated,
                   input, escaped, finished>>

WriteNull ==
    /\ CanWrite
    /\ \E key \in WriterKeys :
          /\ w' = write_null(w, key)
          /\ call' = Called("write_null", key, NoNumber)
    /\ UNCHANGED <<json, arbitrary_precision, converted, writer, estimated,
                   input, escaped, finished>>

Finish ==
    /\ finished.state = "none"
    /\ finished' = [state |-> "done", text |-> finish(w)]
    /\ UNCHANGED <<json, arbitrary_precision, converted, writer, estimated,
                   input, escaped, w, call>>

NextWriter == WriteString \/ WriteNumber \/ WriteBool \/ WriteNull \/ Finish

SpecWriter == InitWriter /\ [][NextWriter]_vars

(***************************************************************************)
(* What the claims speak of: the leaves of a value in depth-first order,   *)
(* each with the path segments leading to it.                              *)
(***************************************************************************)
IsLeaf(v) == v.kind \notin {"Array", "Object"} \/ v.items = <<>>

RECURSIVE LeafCount(_)
RECURSIVE LeafCountFrom(_, _)
LeafCountFrom(items, i) ==
    IF i > Len(items) THEN 0
    ELSE LeafCount(items[i]) + LeafCountFrom(items, i + 1)
LeafCount(v) == IF IsLeaf(v) THEN 1 ELSE LeafCountFrom(v.items, 1)

Segment(v, i) == IF v.kind = "Array" THEN fmt_int(i - 1) ELSE v.keys[i]

RECURSIVE LeafList(_, _)
RECURSIVE LeafListFrom(_, _, _)
LeafListFrom(v, segs, i) ==
    IF i > Len(v.items) THEN <<>>
    ELSE LeafList(v.items[i], Append(segs, Segment(v, i)))
         \o LeafListFrom(v, segs, i + 1)
LeafList(v, segs) ==
    IF IsLeaf(v) THEN <<[segs |-> segs, leaf |-> v]>>
    ELSE LeafListFrom(v, segs, 1)

RECURSIVE JoinPath(_)
JoinPath(segs) ==
    IF segs = <<>> THEN <<>>
    ELSE IF Len(segs) = 1 THEN segs[1]
    ELSE segs[1] \o <<".">> \o JoinPath(Tail(segs))

RECURSIVE Depth(_)
RECURSIVE DepthFrom(_, _)
DepthFrom(items, i) ==
    IF i > Len(items) THEN 0
    ELSE LET a == Depth(items[i])
             b == DepthFrom(items, i + 1)
         IN  IF a > b THEN a ELSE b
Depth(v) == IF IsLeaf(v) THEN 0 ELSE 1 + DepthFrom(v.items, 1)

ConvertedOk == converted.state = "Ok"

\* C1: on success the number of write calls made on the writer is the number
\* of leaves of the value, an empty array or object counting as one leaf and a
\* non-empty one as none.
C1_LeafCount ==
    ConvertedOk => Len(writer.calls) = LeafCount(json.value)

C1_Witness ==
    /\ ConvertedOk
    /\ Depth(json.value) >= 2
    /\ LeafCount(json.value) >= 2
    /\ \E i \in 1..Len(json.value.items) :
          json.value.items[i].kind = "Object" /\ json.value.items[i].items = <<>>

\* C2: on success the key of the i-th record is the path segments from the
\* root to the i-th leaf (object keys verbatim, array positions as 0-based
\* decimals) joined with '.', the empty key for a leaf at the root.
C2_KeyIsJoinedPath ==
    ConvertedOk =>
        LET leaves == LeafList(json.value, <<>>)
        IN  /\ Len(writer.calls) = Len(leaves)
            /\ \A i \in 1..Len(leaves) :
                  writer.calls[i].key = JoinPath(leaves[i].segs)

(***************************************************************************)
(* The record of one leaf under a key, and the text of a subtree: the      *)
(* texts of its children's subtrees one after the other.                   *)
(***************************************************************************)
LeafText(key, leaf) ==
    CASE leaf.kind = "Null" -> write_null(ToonWriter_new, key).buffer
      [] leaf.kind = "Bool" -> write_bool(ToonWriter_new, key, leaf.b).buffer
      [] leaf.kind = "Number" -> write_number(ToonWriter_new, key, leaf.n).buffer
      [] leaf.kind = "String" -> write_string(ToonWriter_new, key, leaf.s).buffer
      [] leaf.kind = "Array" ->
            write_string(ToonWriter_new, key, EmptyArrayMarker).buffer
      [] leaf.kind = "Object" ->
            write_string(ToonWriter_new, key, EmptyObjectMarker).buffer

ChildKey(prefix, v, i) ==
    IF v.kind = "Array" THEN array_key(prefix, i - 1)
    ELSE object_key(prefix, v.keys[i])

RECURSIVE SubtreeText(_, _)
RECURSIVE ChildrenText(_, _, _)
ChildrenText(prefix, v, i) ==
    IF i > Len(v.items) THEN <<>>
    ELSE SubtreeText(ChildKey(prefix, v, i), v.items[i])
         \o ChildrenText(prefix, v, i + 1)
SubtreeText(prefix, v) ==
    IF IsLeaf(v) THEN LeafText(prefix, v) ELSE ChildrenText(prefix, v, 1)

RECURSIVE ConcatTexts(_, _)
ConcatTexts(calls, i) ==
    IF i > Len(calls) THEN <<>> ELSE calls[i].text \o ConcatTexts(calls, i + 1)

\* C3: the returned text is the records in call order, the i-th record is the
\* record of the i-th leaf in depth-first order, and the text of every subtree
\* is one contiguous block: the blocks of its children in iteration order.
C3_DepthFirstOrder ==
    ConvertedOk =>
        LET leaves == LeafList(json.value, <<>>)
        IN  /\ Len(writer.calls) = Len(leaves)
            /\ \A i \in 1..Len(leaves) :
                  writer.calls[i].text
                      = LeafText(writer.calls[i].key, leaves[i].leaf)
            /\ converted.text = ConcatTexts(writer.calls, 1)
            /\ converted.text = SubtreeText(<<>>, json.value)

C3_Witness ==
    /\ ConvertedOk
    /\ json.value.kind = "Array"
    /\ Len(json.value.items) >= 2
    /\ ~IsLeaf(json.value.items[1])
    /\ json.value.items[1] # json.value.items[2]

(***************************************************************************)
(* Reading escaped text back: a backslash and the character after it are   *)
(* one escape of the table, any other character stands for itself.         *)
(***************************************************************************)
EscapeLetters == {"\"", "\\", "n", "r", "t"}

unescape_char(ch) ==
    CASE ch = "\"" -> "\""
      [] ch = "\\" -> "\\"
      [] ch = "n" -> "\n"
      [] ch = "r" -> "\r"
      [] ch = "t" -> "\t"
      [] OTHER -> ch

RECURSIVE Unescape(_, _)
Unescape(text, i) ==
    IF i > Len(text) THEN <<>>
    ELSE IF text[i] = "\\" /\ i < Len(text)
         THEN <<unescape_char(text[i + 1])>> \o Unescape(text, i + 2)
    ELSE <<text[i]>> \o Unescape(text, i + 1)

\* read from the left, every backslash starts an escape of the table, and
\* outside the escapes there is no quote, newline, carriage return or tab
RECURSIVE WellEscaped(_, _)
WellEscaped(text, i) ==
    IF i > Len(text) THEN TRUE
    ELSE IF text[i] = "\\"
         THEN /\ i < Len(text)
              /\ text[i + 1] \in EscapeLetters
              /\ WellEscaped(text, i + 2)
    ELSE /\ text[i] \notin {"\"", "\n", "\r", "\t"}
         /\ WellEscaped(text, i + 1)

\* C4: escape_string(s) has no unescaped quote or backslash and no raw
\* newline, carriage return or tab, and reading it back through the inverse
\* of the escape table gives s.
C4_EscapeRoundTrip ==
    escaped.state = "done" =>
        /\ WellEscaped(escaped.text, 1)
        /\ Unescape(escaped.text, 1) = input

C4_Witness ==
    /\ escaped.state = "done"
    /\ Len(input) = 3
    /\ input[1] = "\\" /\ input[2] = "n" /\ input[3] = "\""

\* C5: when convert succeeds, estimate_size of the same input is at least the
\* byte length of the text convert returned.
C5_EstimateIsUpperBound ==
    (ConvertedOk /\ estimated.state = "Ok") =>
        estimated.size >= Len(converted.text)

(***************************************************************************)
(* The first leaf, in depth-first order, that is a number beyond the f64   *)
(* range; 0 when there is none.                                            *)
(***************************************************************************)
NonFinite(leaf) == leaf.kind = "Number" /\ ~in_f64_range(leaf.n)

RECURSIVE FirstNonFiniteFrom(_, _)
FirstNonFiniteFrom(leaves, i) ==
    IF i > Len(leaves) THEN 0
    ELSE IF NonFinite(leaves[i].leaf) THEN i
    ELSE FirstNonFiniteFrom(leaves, i + 1)

FirstNonFinite(v) == FirstNonFiniteFrom(LeafList(v, <<>>), 1)

\* C6: convert returns Ok with every leaf rendered, or an error that carries
\* no text; after a conversion error at a leaf no later leaf is written, and a
\* parse error comes with no write call at all.
C6_AllOrNothing ==
    LET leaves == LeafList(json.value, <<>>)
    IN  /\ ConvertedOk =>
              /\ Len(writer.calls) = Len(leaves)
              /\ converted.text = writer.buffer
              /\ converted.text = ConcatTexts(writer.calls, 1)
        /\ converted.state = "Err" => converted.text = <<>>
        /\ converted.error = "ConversionError" =>
              /\ FirstNonFinite(json.value) > 0
              /\ Len(writer.calls) = FirstNonFinite(json.value) - 1
        /\ converted.error = "ParseError" =>
              writer.calls = <<>> /\ writer.buffer = <<>>

C6_Witness ==
    /\ converted.error = "ConversionError"
    /\ Len(writer.calls) >= 1
    /\ Len(writer.calls) + 1 < LeafCount(json.value)

RECURSIVE CountChar(_, _)
CountChar(text, ch) ==
    IF text = <<>> THEN 0
    ELSE (IF Head(text) = ch THEN 1 ELSE 0) + CountChar(Tail(text), ch)

RECURSIVE KeysHaveChar(_, _)
KeysHaveChar(v, ch) ==
    \/ \E i \in 1..Len(v.keys) : CountChar(v.keys[i], ch) > 0
    \/ \E i \in 1..Len(v.items) : KeysHaveChar(v.items[i], ch)

\* the value part of a record key=value\n
ValueToken(rec) == SubSeq(rec.text, Len(rec.key) + 2, Len(rec.text) - 1)

\* C7 as stated: for every input, keys with a newline included, the text of a
\* successful convert has as many newline characters as the input has leaves.
C7_OneLinePerLeaf ==
    ConvertedOk => CountChar(converted.text, "\n") = LeafCount(json.value)

\* C7 amended: when no object key holds a newline character the text has one
\* newline per leaf, it is the records key=value\n one after the other, no
\* record holds a newline before its last character, and so the text ends
\* with the last record's newline and has no blank line.
C7_OneLinePerLeafPlainKeys ==
    (ConvertedOk /\ ~KeysHaveChar(json.value, "\n")) =>
        /\ CountChar(converted.text, "\n") = LeafCount(json.value)
        /\ converted.text = ConcatTexts(writer.calls, 1)
        /\ converted.text[Len(converted.text)] = "\n"
        /\ \A i \in 1..Len(writer.calls) :
              LET c == writer.calls[i]
              IN  /\ Len(ValueToken(c)) > 0
                  /\ c.text = c.key \o <<"=">> \o ValueToken(c) \o <<"\n">>
                  /\ CountChar(c.text, "\n") = 1

C7_Witness ==
    /\ ConvertedOk
    /\ ~KeysHaveChar(json.value, "\n")
    /\ KeysHaveChar(json.value, "=")
    /\ LeafCount(json.value) >= 2
    /\ \E i \in 1..Len(json.value.items) :
          json.value.items[i].kind = "String"
          /\ CountChar(json.value.items[i].s, "\n") > 0

(***************************************************************************)
(* A value with the string "[]" in the place of every empty array and the  *)
(* string "{}" in the place of every empty object.                         *)
(***************************************************************************)
RECURSIVE WithMarkerStrings(_)
WithMarkerStrings(v) ==
    IF v.kind = "Array" /\ v.items = <<>> THEN String(EmptyArrayMarker)
    ELSE IF v.kind = "Object" /\ v.items = <<>> THEN String(EmptyObjectMarker)
    ELSE IF v.kind \in {"Array", "Object"}
         THEN [v EXCEPT !.items =
                   [i \in 1..Len(v.items) |-> WithMarkerStrings(v.items[i])]]
    ELSE v

NumberChars == {"0", "1", "2", "3", "4", "5", "6", "7", "8", "9", "-", "."}

\* C10: once the input is parsed, convert fails iff the value holds a number
\* that is not finite; it fails at the first such number in depth-first order
\* without calling write_number for it; every write_number call is for a
\* finite number and its value token is made of digits, '-' and '.' only.
C10_NonFiniteNumberFails ==
    (converted.state # "none" /\ from_str(json, arbitrary_precision).ok) =>
        LET leaves == LeafList(json.value, <<>>)
            bad == FirstNonFinite(json.value)
        IN  /\ bad > 0 <=> converted.state = "Err"
            /\ converted.state = "Err" =>
                  /\ converted.error = "ConversionError"
                  /\ Len(writer.calls) = bad - 1
            /\ \A i \in 1..Len(writer.calls) :
                  /\ writer.calls[i].op = "write_number"
                        <=> leaves[i].leaf.kind = "Number"
                  /\ writer.calls[i].op = "write_number" =>
                        /\ ~NonFinite(leaves[i].leaf)
                        /\ \A j \in 1..Len(ValueToken(writer.calls[i])) :
                              ValueToken(writer.calls[i])[j] \in NumberChars

C10_Witness ==
    /\ converted.error = "ConversionError"
    /\ Len(writer.calls) >= 1
    /\ writer.calls[Len(writer.calls)].op = "write_number"

(***************************************************************************)
(* The number text of the last write_number call, and what a plain signed  *)
(* decimal integer is: digits only, after an optional '-', with no leading *)
(* zero and no sign on zero.                                               *)
(***************************************************************************)
Rendered ==
    SubSeq(w.buffer, Len(call.before) + Len(call.key) + 2, Len(w.buffer) - 1)

Digits == {"0", "1", "2", "3", "4", "5", "6", "7", "8", "9"}

AllDigits(text) == Len(text) > 0 /\ \A i \in 1..Len(text) : text[i] \in Digits

PlainInteger(text) ==
    \/ text = <<"0">>
    \/ AllDigits(text) /\ text[1] # "0"
    \/ /\ Len(text) > 1
       /\ text[1] = "-"
       /\ AllDigits(Tail(text))
       /\ text[2] # "0"

RECURSIVE TrailingZeros(_)
TrailingZeros(text) ==
    IF Len(text) > 1 /\ text[Len(text)] = "0"
    THEN 1 + TrailingZeros(SubSeq(text, 1, Len(text) - 1))
    ELSE 0

DigitValue(ch) == CHOOSE d \in 0..9 : DigitChars[d + 1] = ch

RECURSIVE DigitsValue(_)
DigitsValue(text) ==
    IF text = <<>> THEN 0
    ELSE 10 * DigitsValue(SubSeq(text, 1, Len(text) - 1))
         + DigitValue(text[Len(text)])

\* the number a plain integer text denotes, as mant * 10^exp
IntegerOf(text) ==
    LET neg == text[1] = "-"
        digits == IF neg THEN Tail(text) ELSE text
        z == TrailingZeros(digits)
    IN  F64(neg, DigitsValue(SubSeq(digits, 1, Len(digits) - z)), z)

NumericallyEqual(a, b) ==
    \/ a.mant = 0 /\ b.mant = 0
    \/ a = b

InIntegerBranch(n) == fract_is_zero(n) /\ abs_below_limit(n)

\* C9 as stated: write_number appends key=<rendered>\n, and <rendered> is a
\* plain signed decimal integer, equal to n, exactly when n has zero
\* fractional part and |n| < 1e15.
C9_IntegerExactlyBelowLimit ==
    call.op = "write_number" =>
        /\ w.buffer = call.before \o call.key \o <<"=">> \o Rendered \o <<"\n">>
        /\ PlainInteger(Rendered) <=> InIntegerBranch(call.n)
        /\ InIntegerBranch(call.n) =>
              NumericallyEqual(IntegerOf(Rendered), call.n)

\* C9 amended: write_number appends exactly key=<rendered>\n.  When n has zero
\* fractional part and |n| < 1e15, <rendered> is a plain signed decimal
\* integer equal to n.  Every other finite n is rendered in the default float
\* text form, which has no exponent, and has a decimal point only when n has a
\* fractional part: <rendered> is a plain integer exactly when n has zero
\* fractional part, at or above 1e15 too.
C9_NumberRendering ==
    call.op = "write_number" =>
        /\ w.buffer = call.before \o call.key \o <<"=">> \o Rendered \o <<"\n">>
        /\ InIntegerBranch(call.n) =>
              /\ PlainInteger(Rendered)
              /\ NumericallyEqual(IntegerOf(Rendered), call.n)
        /\ ~InIntegerBranch(call.n) => Rendered = fmt_f64(call.n)
        /\ PlainInteger(Rendered) <=> fract_is_zero(call.n)
        /\ \A i \in 1..Len(Rendered) : Rendered[i] \in NumberChars

C9_Witness ==
    /\ call.op = "write_number"
    /\ call.before # <<>>
    /\ fract_is_zero(call.n)
    /\ ~abs_below_limit(call.n)
    /\ PlainInteger(Rendered)

(***************************************************************************)
(* The buffer across the calls made on one writer.                         *)
(***************************************************************************)
IsPrefix(a, b) == Len(a) <= Len(b) /\ SubSeq(b, 1, Len(a)) = a

WriteOps == {"write_null", "write_bool", "write_number", "write_string"}

\* in every state: the buffer is the records of the calls made so far, in call
\* order, each a non-empty text ending in a newline; before any call it is
\* empty; what finish() returned is that text
BufferIsTheRecords ==
    /\ w.calls = <<>> => w.buffer = <<>>
    /\ w.buffer = ConcatTexts(w.calls, 1)
    /\ \A i \in 1..Len(w.calls) :
          /\ w.calls[i].op \in WriteOps
          /\ Len(w.calls[i].text) > 0
          /\ w.calls[i].text[Len(w.calls[i].text)] = "\n"
    /\ finished.state = "done" =>
          /\ finished.text = ConcatTexts(w.calls, 1)
          /\ IsPrefix(w.buffer, finished.text)

\* in every step: the text accumulated before stays as a prefix; a write call
\* adds one call to the trace and appends exactly its record, which ends in a
\* newline; finish() changes nothing of the writer and returns a text every
\* earlier buffer is a prefix of; nothing is written after finish()
BufferOnlyGrows ==
    /\ IsPrefix(w.buffer, w'.buffer)
    /\ SubSeq(w'.calls, 1, Len(w.calls)) = w.calls
    /\ w' # w =>
          /\ finished.state = "none" /\ finished' = finished
          /\ Len(w'.calls) = Len(w.calls) + 1
          /\ w'.buffer = w.buffer \o w'.calls[Len(w'.calls)].text
          /\ CountChar(SubSeq(w'.buffer, Len(w.buffer) + 1, Len(w'.buffer)), "\n") = 1
          /\ w'.buffer[Len(w'.buffer)] = "\n"
    /\ finished' # finished =>
          /\ w' = w
          /\ finished'.state = "done"
          /\ IsPrefix(w.buffer, finished'.text)
          /\ IsPrefix(call.before, finished'.text)

\* C11: the writer's buffer is append-only: empty after new(); every write
\* call keeps the text accumulated before as a prefix and appends exactly one
\* record ending in a newline; every intermediate buffer is a prefix of the
\* text finish() returns, and finish() returns the records in call order.
C11_BufferAppendOnly == []BufferIsTheRecords /\ [][BufferOnlyGrows]_vars

C11_Witness ==
    /\ finished.state = "done"
    /\ Len(w.calls) = 2
    /\ w.calls[1].op = "write_string"
    /\ w.calls[2].op = "write_number"
    /\ call.before = w.calls[1].text
    /\ finished.text = w.calls[1].text \o w.calls[2].text

====
